---- MODULE Spec2Model ----
(***************************************************************************)
(* A model of the DGIdb parser (src/parser.py): the generator              *)
(* load_annotations and the helper functions it calls.                     *)
(*                                                                         *)
(* A Python str is a sequence of one-character strings; Python's None is   *)
(* the value None below, which is no sequence of characters.  A dict is a  *)
(* function from key names to values.  The reply of requests.get is an     *)
(* input of the model, drawn from Responses.                               *)
(***************************************************************************)
EXTENDS Integers, Sequences, FiniteSets, TLC

VARIABLES pc, table, docs, outcome, lookups, error, call

vars == <<pc, table, docs, outcome, lookups, error, call>>

----------------------------------------------------------------------------
(* Bounds of the model *)

\* the number of data rows of interactions.tsv
MaxRows == 2

\* the length of the strings the function calls are tried on
MaxLen == 3

----------------------------------------------------------------------------
(* Python values *)

\* Python's None: a one-element sequence whose element is no character
None == <<"None">>

\* the strings of at most n characters over the alphabet A
Strs(A, n) == UNION {[1..k -> A] : k \in 0..n}

\* s.startswith(p)
StartsWith(s, p) == Len(s) >= Len(p) /\ SubSeq(s, 1, Len(p)) = p

\* s.replace(a, b) for one-character a and b
Replace(s, a, b) == [i \in 1..Len(s) |-> IF s[i] = a THEN b ELSE s[i]]

\* the position of the first sep in s from position i on, or 0
RECURSIVE Find(_, _, _)
Find(s, sep, i) ==
  IF i > Len(s) THEN 0
  ELSE IF s[i] = sep THEN i
  ELSE Find(s, sep, i + 1)

\* s.split(sep) for a one-character sep: "".split(",") is [""]
RECURSIVE Split(_, _)
Split(s, sep) ==
  LET i == Find(s, sep, 1)
  IN  IF i = 0 THEN <<s>>
      ELSE <<SubSeq(s, 1, i - 1)>> \o Split(SubSeq(s, i + 1, Len(s)), sep)

\* sep.join(list)
RECURSIVE Join(_, _)
Join(sep, list) ==
  IF Len(list) = 0 THEN <<>>
  ELSE IF Len(list) = 1 THEN list[1]
  ELSE list[1] \o sep \o Join(sep, Tail(list))

Digits == {"0", "1", "2", "3", "4", "5", "6", "7", "8", "9"}

DigitValue(c) ==
  CASE c = "0" -> 0 [] c = "1" -> 1 [] c = "2" -> 2 [] c = "3" -> 3
    [] c = "4" -> 4 [] c = "5" -> 5 [] c = "6" -> 6 [] c = "7" -> 7
    [] c = "8" -> 8 [] c = "9" -> 9

\* whether float(s) returns, for s over digits and letters: a non-empty run
\* of digits is a number, the empty string and a string with a letter are not
FloatParses(s) == Len(s) > 0 /\ \A i \in 1..Len(s) : s[i] \in Digits

\* the number float(s) returns for a run of digits
RECURSIVE FloatValue(_)
FloatValue(s) ==
  IF Len(s) = 0 THEN 0
  ELSE 10 * FloatValue(SubSeq(s, 1, Len(s) - 1)) + DigitValue(s[Len(s)])

----------------------------------------------------------------------------
(* The string literals of parser.py *)

NCBIGenePrefix == <<"N", "C", "B", "I", "G", "e", "n", "e", ":">>
ChemblCompoundPrefix ==
  <<"C", "H", "E", "M", "B", "L", ".", "C", "O", "M", "P", "O", "U", "N", "D", ":">>
NamePrefix == <<"n", "a", "m", "e", ":">>
WikidataPrefix == <<"w", "i", "k", "i", "d", "a", "t", "a", ":">>
ChemblPrefix == <<"c", "h", "e", "m", "b", "l", ":">>
NotApplicable ==
  <<"n", "o", "t", "_", "a", "p", "p", "l", "i", "c", "a", "b", "l", "e">>

\* the column names of interactions.tsv, in the order of the file
Header ==
  <<"gene_name", "gene_claim_name", "entrez_id", "interaction_claim_source",
    "interaction_types", "drug_claim_name", "drug_claim_primary_name",
    "drug_name", "drug_concept_id", "interaction_group_score", "PMIDs">>

----------------------------------------------------------------------------
(* The replies of the two lookup services *)

\* one element of data["hits"]: has_id says whether the id field is there
Hit(has_id, id) == [has_id |-> has_id, id |-> id]

\* what requests.get does: it raises (delivered = FALSE), or it returns a
\* response with a status code and a JSON body holding the list "hits"
Response(delivered, status_code, hits) ==
  [delivered |-> delivered, status_code |-> status_code, hits |-> hits]

Responses ==
  { Response(FALSE, 0, <<>>),
    Response(TRUE, 500, <<>>),
    Response(TRUE, 200, <<>>),
    Response(TRUE, 200, <<Hit(TRUE, <<"9">>)>>),
    Response(TRUE, 200, <<Hit(TRUE, <<>>)>>),
    Response(TRUE, 200, <<Hit(FALSE, <<>>)>>),
    Response(TRUE, 200, <<Hit(TRUE, <<"9">>), Hit(TRUE, <<"8">>)>>) }

\* the result of a call: the exception it raises ("" when it returns), the
\* value it returns and the lookups it issued, in order
Returned(val, calls) == [exc |-> "", args |-> <<>>, val |-> val, calls |-> calls]
Raised(exc, args, calls) == [exc |-> exc, args |-> args, val |-> None, calls |-> calls]

\* one lookup: the service asked, the term asked for and the reply
Lookup(service, term, response) ==
  [service |-> service, term |-> term, response |-> response]

----------------------------------------------------------------------------
(* The functions of parser.py *)

query_entrez_id(gene_name, response) ==
  LET calls == <<Lookup("mygene", gene_name, response)>>
  IN  IF ~response.delivered THEN Raised("ConnectionError", <<>>, calls)
      ELSE IF response.status_code = 200 /\ Len(response.hits) > 0
      THEN IF ~response.hits[1].has_id THEN Raised("KeyError", <<>>, calls)
           ELSE IF response.hits[1].id # <<>>
           THEN Returned(response.hits[1].id, calls)
           ELSE Returned(None, calls)
      ELSE Returned(None, calls)

query_chembl_id(drug_name, response) ==
  LET calls == <<Lookup("mychem", drug_name, response)>>
  IN  IF ~response.delivered THEN Raised("ConnectionError", <<>>, calls)
      ELSE IF response.status_code = 200 /\ Len(response.hits) > 0
      THEN IF ~response.hits[1].has_id THEN Raised("KeyError", <<>>, calls)
           ELSE IF response.hits[1].id # <<>>
           THEN Returned(response.hits[1].id, calls)
           ELSE Returned(None, calls)
      ELSE Returned(None, calls)

\* create_doc_id with the last field left out of the hash
create_doc_id_short(record) == Join(<<"-">>, SubSeq(record, 1, Len(record) - 1))

create_doc_id(record) == Join(<<"-">>, record)

create_column_index(header) ==
  [name \in {header[i] : i \in 1..Len(header)} |->
     CHOOSE i \in 1..Len(header) : header[i] = name]

is_empty(val) == val = None \/ val = <<>>

verify_entrez_id(entrez_id, gene_name, response) ==
  IF is_empty(entrez_id)
  THEN IF is_empty(gene_name) THEN Returned(None, <<>>)
       ELSE query_entrez_id(gene_name, response)
  ELSE Returned(entrez_id, <<>>)

\* create_object_id without the test of gene_name: never None
create_object_id_unguarded(entrez_id, gene_name) ==
  IF is_empty(entrez_id) THEN NamePrefix \o gene_name
  ELSE NCBIGenePrefix \o entrez_id

create_object_id(entrez_id, gene_name) ==
  IF is_empty(entrez_id)
  THEN IF is_empty(gene_name) THEN None ELSE NamePrefix \o gene_name
  ELSE NCBIGenePrefix \o entrez_id

\* verify_drug_concept_id with an unknown prefix swallowed: None, no error
verify_drug_concept_id_lenient(drug_concept_id, drug_name, response) ==
  IF is_empty(drug_concept_id) \/ StartsWith(drug_concept_id, WikidataPrefix)
  THEN IF is_empty(drug_name) THEN Returned(None, <<>>)
       ELSE query_chembl_id(drug_name, response)
  ELSE IF StartsWith(drug_concept_id, ChemblPrefix)
  THEN LET parts == Split(drug_concept_id, ":")
       IN  Returned(parts[Len(parts)], <<>>)
  ELSE Returned(None, <<>>)

verify_drug_concept_id(drug_concept_id, drug_name, response) ==
  IF is_empty(drug_concept_id) \/ StartsWith(drug_concept_id, WikidataPrefix)
  THEN IF is_empty(drug_name) THEN Returned(None, <<>>)
       ELSE query_chembl_id(drug_name, response)
  ELSE IF StartsWith(drug_concept_id, ChemblPrefix)
  THEN LET parts == Split(drug_concept_id, ":")
       IN  Returned(parts[Len(parts)], <<>>)
  ELSE Raised("ValueError", <<drug_concept_id, drug_name>>, <<>>)

\* create_subject_id with the name tried first
create_subject_id_name_first(drug_chembl_id, drug_name) ==
  IF is_empty(drug_name)
  THEN IF is_empty(drug_chembl_id) THEN None
       ELSE ChemblCompoundPrefix \o drug_chembl_id
  ELSE NamePrefix \o drug_name

create_subject_id(drug_chembl_id, drug_name) ==
  IF is_empty(drug_chembl_id)
  THEN IF is_empty(drug_name) THEN None ELSE NamePrefix \o drug_name
  ELSE ChemblCompoundPrefix \o drug_chembl_id

\* parse_interaction_types without the replacement of spaces
parse_interaction_types_spaces(interaction_types) ==
  IF is_empty(interaction_types) THEN <<NotApplicable>>
  ELSE Split(interaction_types, ",")

parse_interaction_types(interaction_types) ==
  IF is_empty(interaction_types) THEN <<NotApplicable>>
  ELSE Split(Replace(interaction_types, " ", "_"), ",")

\* object_doc with the gene name stored when no Entrez id was resolved
object_doc_named(entrez_id, gene_name, object_id) ==
  [NCBIGene |-> IF entrez_id = None THEN gene_name ELSE entrez_id,
   SYMBOL |-> gene_name,
   id |-> object_id]

\* lines 180-182: the object part of a document
object_doc(entrez_id, gene_name, object_id) ==
  [NCBIGene |-> IF entrez_id = None THEN <<>> ELSE entrez_id,
   SYMBOL |-> gene_name,
   id |-> object_id]

\* lines 192-194: the subject part of a document
subject_doc(drug_chembl_id, drug_name, subject_id) ==
  [CHEMBL_COMPOUND |-> IF drug_chembl_id = None THEN <<>> ELSE drug_chembl_id,
   drug_name |-> drug_name,
   id |-> subject_id]

\* lines 197-205: the association part of a document, float() having returned
association_doc(interaction_types, interaction_claim_source, interaction_group_score, PMIDs) ==
  [interaction_types |-> parse_interaction_types(interaction_types),
   interaction_claim_source |-> interaction_claim_source,
   interaction_group_score |-> FloatValue(interaction_group_score),
   pmids |-> Split(PMIDs, ",")]

----------------------------------------------------------------------------
(* The cleanup of biothings.utils.dataload, which parser.py imports: empty   *)
(* values are removed from a dict and from a list, a dict entry whose list   *)
(* or dict became empty is removed, and a list of one element is replaced by *)
(* the element.                                                              *)

\* a dict of strings without its entries whose value is the empty string
sweep_strings(d) == [k \in {k \in DOMAIN d : d[k] # <<>>} |-> d[k]]

\* a list of strings without its empty strings
sweep_list(list) == SelectSeq(list, LAMBDA x : x # <<>>)

\* the association dict without its empty values
sweep_association(a) ==
  LET keep == {"interaction_group_score"}
                \cup (IF sweep_list(a.interaction_types) # <<>>
                      THEN {"interaction_types"} ELSE {})
                \cup (IF a.interaction_claim_source # <<>>
                      THEN {"interaction_claim_source"} ELSE {})
                \cup (IF sweep_list(a.pmids) # <<>> THEN {"pmids"} ELSE {})
  IN  [k \in keep |->
         CASE k = "interaction_types" -> sweep_list(a.interaction_types)
           [] k = "pmids" -> sweep_list(a.pmids)
           [] OTHER -> a[k]]

dict_sweep(doc) ==
  LET swept == [_id |-> doc._id,
                subject |-> sweep_strings(doc.subject),
                object |-> sweep_strings(doc.object),
                association |-> sweep_association(doc.association)]
  IN  [k \in {k \in DOMAIN swept : DOMAIN swept[k] # {}} |-> swept[k]]

\* a list of one element becomes the element
unlist_value(list) == IF Len(list) = 1 THEN list[1] ELSE list

unlist(doc) ==
  [k \in DOMAIN doc |->
     IF k = "association"
     THEN [f \in DOMAIN doc[k] |->
             IF f \in {"interaction_types", "pmids"}
             THEN unlist_value(doc[k][f]) ELSE doc[k][f]]
     ELSE doc[k]]

----------------------------------------------------------------------------
(* The rows the input table is drawn from *)

\* a row of interactions.tsv, its fields in the order of Header
Row(gene_name, entrez_id, interaction_types, drug_name, drug_concept_id, interaction_group_score, PMIDs, drug_claim_name, drug_claim_primary_name) ==
  <<gene_name, <<"g">>, entrez_id, <<"s">>, interaction_types, drug_claim_name,
    drug_claim_primary_name, drug_name, drug_concept_id,
    interaction_group_score, PMIDs>>

GeneNames == {<<>>, <<"G">>}
EntrezIds == {<<>>, <<"7">>}
DrugNames == {<<>>, <<"D">>}
ConceptIds ==
  { <<>>,
    WikidataPrefix \o <<"Q">>,
    ChemblPrefix \o <<"C">>,
    ChemblPrefix \o <<"C", ":", "1">>,
    ChemblPrefix,
    <<"x", ":", "1">> }

\* rows that differ in how the gene is identified
GeneRows ==
  { Row(g, e, <<>>, dc[1], dc[2], <<"1">>, <<"1">>, <<"a">>, <<"p">>) :
      g \in GeneNames, e \in EntrezIds,
      dc \in { <<<<"D">>, ChemblPrefix \o <<"C">>>>,
               <<<<"D">>, <<"x", ":", "1">>>>,
               <<<<>>, <<>>>> } }

\* a row that asks both services
BothRows ==
  { Row(<<"G">>, <<>>, <<>>, <<"D">>, WikidataPrefix \o <<"Q">>, <<"1">>, <<"1">>,
        <<"a">>, <<"p">>) }

\* rows that differ in how the drug is identified
DrugRows ==
  { Row(<<"G">>, <<"7">>, <<>>, d, c, <<"1">>, <<"1">>, <<"a">>, <<"p">>) :
      d \in DrugNames, c \in ConceptIds }

\* rows that differ in the interaction evidence
AssocRows ==
  { Row(<<"G">>, <<"7">>, t, <<"D">>, ChemblPrefix \o <<"C">>, s, p, <<"a">>, <<"p">>) :
      t \in {<<>>, <<"a", " ", "b", ",", "c">>},
      s \in {<<>>, <<"1", "2">>, <<"x">>},
      p \in {<<>>, <<"1", ",", "2">>} }

\* rows that differ in fields the documents do not carry
ClaimRows ==
  { Row(<<"G">>, <<"7">>, <<>>, <<"D">>, ChemblPrefix \o <<"C">>, <<"1">>, <<"1">>, n, p) :
      n \in {<<"a">>, <<"a", "-">>}, p \in {<<"p">>, <<"-", "p">>} }

Rows == GeneRows \cup DrugRows \cup BothRows \cup AssocRows \cup ClaimRows

\* the replies a run of load_annotations is tried on: the request fails, no
\* hit, a hit with an id, a hit with the empty id, a hit without the id field
Replies ==
  { Response(FALSE, 0, <<>>),
    Response(TRUE, 200, <<>>),
    Response(TRUE, 200, <<Hit(TRUE, <<"9">>)>>),
    Response(TRUE, 200, <<Hit(TRUE, <<>>)>>),
    Response(TRUE, 200, <<Hit(FALSE, <<>>)>>) }

\* the reply of a request that is never made
Unasked == Response(FALSE, 0, <<>>)

----------------------------------------------------------------------------
(* load_annotations: one run over a table of at most MaxRows data rows *)

NoError == [exc |-> "", args |-> <<>>]

NoCall == [fn |-> "", args |-> <<>>, result |-> Returned(None, <<>>)]

Init ==
  /\ pc = "running"
  /\ table = <<>>
  /\ docs = <<>>
  /\ outcome = <<>>
  /\ lookups = <<>>
  /\ error = NoError
  /\ call = NoCall

\* the lookups of a call, as the lookups of the row that is being processed
OfRow(calls, row) ==
  [i \in 1..Len(calls) |->
     [row |-> row, service |-> calls[i].service, term |-> calls[i].term,
      response |-> calls[i].response]]

\* the body of the loop at lines 168-210 for the row rec: what the iteration
\* ends with (a document yielded, the row skipped by continue, an exception
\* raised), the document, the exception and the lookups issued
Iteration(rec, gene_response, drug_response) ==
  LET col_index == create_column_index(Header)
      doc_id == create_doc_id(rec)
      gene_name == rec[col_index["gene_name"]]
      entrez == verify_entrez_id(rec[col_index["entrez_id"]], gene_name, gene_response)
      object_id == create_object_id(entrez.val, gene_name)
      drug_name == rec[col_index["drug_name"]]
      drug_concept_id == rec[col_index["drug_concept_id"]]
      chembl == verify_drug_concept_id(drug_concept_id, drug_name, drug_response)
      subject_id == create_subject_id(chembl.val, drug_name)
      interaction_group_score == rec[col_index["interaction_group_score"]]
      doc == [_id |-> doc_id,
              subject |-> subject_doc(chembl.val, drug_name, subject_id),
              object |-> object_doc(entrez.val, gene_name, object_id),
              association |->
                association_doc(rec[col_index["interaction_types"]],
                                rec[col_index["interaction_claim_source"]],
                                interaction_group_score,
                                rec[col_index["PMIDs"]])]
      End(how, d, exc, args, calls) ==
        [how |-> how, doc |-> d, error |-> [exc |-> exc, args |-> args],
         calls |-> calls]
  IN  IF entrez.exc # ""
      THEN End("raised", <<>>, entrez.exc, entrez.args, entrez.calls)
      ELSE IF object_id = None
      THEN End("skipped", <<>>, "", <<>>, entrez.calls)
      ELSE IF chembl.exc # ""
      THEN End("raised", <<>>, chembl.exc, chembl.args, entrez.calls \o chembl.calls)
      ELSE IF subject_id = None
      THEN End("skipped", <<>>, "", <<>>, entrez.calls \o chembl.calls)
      ELSE IF ~FloatParses(interaction_group_score)
      THEN End("raised", <<>>, "ValueError", <<interaction_group_score>>,
               entrez.calls \o chembl.calls)
      ELSE End("yielded", <<unlist(dict_sweep(doc))>>, "", <<>>,
               entrez.calls \o chembl.calls)

\* the replies the row can get: those of the services it asks, a request
\* that is not made having the reply Unasked
Asks(rec, gene_response, service) ==
  LET calls == Iteration(rec, gene_response, Unasked).calls
  IN  \E i \in 1..Len(calls) : calls[i].service = service

GeneReplies(rec) ==
  IF Asks(rec, Unasked, "mygene") THEN Replies ELSE {Unasked}

DrugReplies(rec, gene_response) ==
  IF Asks(rec, gene_response, "mychem") THEN Replies ELSE {Unasked}

\* the consumer pulls the next item: the loop runs over the following rows
\* until one yields a document or raises; here one row per step
ProcessRow ==
  /\ pc = "running"
  /\ Len(table) < MaxRows
  /\ \E rec \in Rows :
       \E gene_response \in GeneReplies(rec) :
         \E drug_response \in DrugReplies(rec, gene_response) :
           LET it == Iteration(rec, gene_response, drug_response)
           IN  /\ table' = Append(table, rec)
               /\ outcome' = Append(outcome, it.how)
               /\ lookups' = lookups \o OfRow(it.calls, Len(table) + 1)
               /\ docs' = docs \o it.doc
               /\ error' = it.error
               /\ pc' = IF it.how = "raised" THEN "raised" ELSE "running"
  /\ UNCHANGED call

\* the table has no further row: the generator returns
Exhausted ==
  /\ pc = "running"
  /\ pc' = "done"
  /\ UNCHANGED <<table, docs, outcome, lookups, error, call>>

Next == ProcessRow \/ Exhausted

Spec == Init /\ [][Next]_vars

----------------------------------------------------------------------------
(* The functions called on their own, on bounded inputs *)

\* the drug concept ids tried: no prefix, "wikidata:" and "chembl:", each
\* followed by at most MaxLen characters, colons among them
ConceptInputs ==
  LET tails == Strs({"C", ":"}, MaxLen)
  IN  tails \cup {WikidataPrefix \o t : t \in tails}
            \cup {ChemblPrefix \o t : t \in tails}

\* the interaction types tried: None, the strings of at most MaxLen letters,
\* spaces and commas, and the two spellings of "not applicable"
TypesInputs ==
  Strs({"a", " ", ","}, MaxLen)
    \cup {None, NotApplicable, Replace(NotApplicable, "_", " ")}

Called(fn, args, result) == [fn |-> fn, args |-> args, result |-> result]

CallQueryEntrez ==
  /\ \E response \in Responses :
       call' = Called("query_entrez_id", <<<<"G">>, response>>,
                      query_entrez_id(<<"G">>, response))
  /\ UNCHANGED <<pc, table, docs, outcome, lookups, error>>

CallQueryChembl ==
  /\ \E response \in Responses :
       call' = Called("query_chembl_id", <<<<"D">>, response>>,
                      query_chembl_id(<<"D">>, response))
  /\ UNCHANGED <<pc, table, docs, outcome, lookups, error>>

CallVerifyDrug ==
  /\ \E drug_concept_id \in ConceptInputs, drug_name \in DrugNames :
       \E response \in
            (IF verify_drug_concept_id(drug_concept_id, drug_name, Unasked).calls = <<>>
             THEN {Unasked} ELSE Responses) :
         call' = Called("verify_drug_concept_id",
                        <<drug_concept_id, drug_name, response>>,
                        verify_drug_concept_id(drug_concept_id, drug_name, response))
  /\ UNCHANGED <<pc, table, docs, outcome, lookups, error>>

CallParseTypes ==
  /\ \E interaction_types \in TypesInputs :
       call' = Called("parse_interaction_types", <<interaction_types>>,
                      Returned(parse_interaction_types(interaction_types), <<>>))
  /\ UNCHANGED <<pc, table, docs, outcome, lookups, error>>

NextFn == CallQueryEntrez \/ CallQueryChembl \/ CallVerifyDrug \/ CallParseTypes

SpecFn == Init /\ [][NextFn]_vars

----------------------------------------------------------------------------
(* What the claims speak of, read off the state of a run *)

Processed == 1..Len(table)

Field(i, name) == table[i][create_column_index(Header)[name]]

Empty(s) == s = None \/ s = <<>>

\* the lookups row i issued to a service, in order
LookupsOf(i, service) ==
  SelectSeq(lookups, LAMBDA l : l.row = i /\ l.service = service)

\* the position in lookups of the first lookup of row i to a service, or 0
PositionOf(i, service) ==
  LET at == {k \in 1..Len(lookups) :
               lookups[k].row = i /\ lookups[k].service = service}
  IN  IF at = {} THEN 0 ELSE CHOOSE k \in at : \A m \in at : k <= m

\* what a reply means to the caller when the lookup returns: the id of the
\* first hit when the status is 200 and that id is not empty, else null
ReplyRaises(r) ==
  ~r.delivered \/ (r.status_code = 200 /\ Len(r.hits) > 0 /\ ~r.hits[1].has_id)

ReplyValue(r) ==
  IF r.delivered /\ r.status_code = 200 /\ Len(r.hits) > 0
     /\ r.hits[1].has_id /\ r.hits[1].id # <<>>
  THEN r.hits[1].id ELSE None

GeneLookupRaised(i) ==
  Len(LookupsOf(i, "mygene")) > 0 /\ ReplyRaises(LookupsOf(i, "mygene")[1].response)

DrugLookupRaised(i) ==
  Len(LookupsOf(i, "mychem")) > 0 /\ ReplyRaises(LookupsOf(i, "mychem")[1].response)

\* the resolved Entrez id of row i: the raw entrez_id if it is not empty,
\* otherwise the result of the gene lookup
ResolvedEntrez(i) ==
  IF ~Empty(Field(i, "entrez_id")) THEN Field(i, "entrez_id")
  ELSE IF Len(LookupsOf(i, "mygene")) > 0
  THEN ReplyValue(LookupsOf(i, "mygene")[1].response)
  ELSE None

\* the part of s after its last colon
AfterLastColon(s) ==
  LET at == {k \in 1..Len(s) : s[k] = ":"}
      last == CHOOSE k \in at : \A m \in at : m <= k
  IN  SubSeq(s, last + 1, Len(s))

\* the resolved ChEMBL id of row i, as the run resolved it: the part of a
\* "chembl:" concept id after its last colon, otherwise the result of the
\* drug lookup
ResolvedChembl(i) ==
  IF StartsWith(Field(i, "drug_concept_id"), ChemblPrefix)
  THEN AfterLastColon(Field(i, "drug_concept_id"))
  ELSE IF Len(LookupsOf(i, "mychem")) > 0
  THEN ReplyValue(LookupsOf(i, "mychem")[1].response)
  ELSE None

ObjectIdNull(i) == Empty(ResolvedEntrez(i)) /\ Empty(Field(i, "gene_name"))

SubjectIdNull(i) == Empty(ResolvedChembl(i)) /\ Empty(Field(i, "drug_name"))

Yielded(i) == outcome[i] = "yielded"

\* the document row i yielded: documents come in the order of their rows
DocOf(i) == docs[Cardinality({j \in 1..i : outcome[j] = "yielded"})]

\* a drug concept id that is not empty and has neither prefix
BadConceptId(c) ==
  ~Empty(c) /\ ~StartsWith(c, WikidataPrefix) /\ ~StartsWith(c, ChemblPrefix)

\* two rows of the same number of fields that differ in exactly one field
DifferInOneField(r1, r2) ==
  /\ Len(r1) = Len(r2)
  /\ Cardinality({k \in 1..Len(r1) : r1[k] # r2[k]}) = 1

----------------------------------------------------------------------------
(* The claims *)

\* C1: a document is yielded for a row only if its object id and its subject
\* id are both non-null, every yielded document carries a non-empty object.id
\* and a non-empty subject.id, and a row whose entrez_id, gene_name,
\* drug_concept_id and drug_name are all empty yields no document.
C1_OnlyIdentifiedRowsYield ==
  /\ Len(outcome) = Len(table)
  /\ Len(docs) = Cardinality({i \in Processed : Yielded(i)})
  /\ \A i \in Processed :
       /\ Yielded(i) =>
            /\ ~ObjectIdNull(i) /\ ~SubjectIdNull(i)
            /\ "id" \in DOMAIN DocOf(i).object /\ ~Empty(DocOf(i).object.id)
            /\ "id" \in DOMAIN DocOf(i).subject /\ ~Empty(DocOf(i).subject.id)
       /\ (Empty(Field(i, "entrez_id")) /\ Empty(Field(i, "gene_name"))
           /\ Empty(Field(i, "drug_concept_id")) /\ Empty(Field(i, "drug_name")))
            => ~Yielded(i)

\* C1 witness: a row whose four fields are all empty was skipped and the
\* row after it yielded a document
C1_Witness ==
  /\ Len(table) = 2
  /\ ObjectIdNull(1) /\ SubjectIdNull(1) /\ Empty(Field(1, "drug_concept_id"))
  /\ outcome[1] = "skipped"
  /\ Yielded(2)
  /\ Len(docs) = 1

\* C2: in every yielded document object.id is "NCBIGene:" + e when the
\* resolved Entrez id e is non-empty and "name:" + gene_name, with gene_name
\* non-empty, otherwise; subject.id is "CHEMBL.COMPOUND:" + c when the
\* resolved ChEMBL id c is non-empty and "name:" + drug_name, with drug_name
\* non-empty, otherwise.
C2_IdForms ==
  \A i \in Processed :
    Yielded(i) =>
      /\ IF ~Empty(ResolvedEntrez(i))
         THEN DocOf(i).object.id = NCBIGenePrefix \o ResolvedEntrez(i)
         ELSE /\ ~Empty(Field(i, "gene_name"))
              /\ DocOf(i).object.id = NamePrefix \o Field(i, "gene_name")
      /\ IF ~Empty(ResolvedChembl(i))
         THEN DocOf(i).subject.id = ChemblCompoundPrefix \o ResolvedChembl(i)
         ELSE /\ ~Empty(Field(i, "drug_name"))
              /\ DocOf(i).subject.id = NamePrefix \o Field(i, "drug_name")

\* C2 witness: a document whose object id has the name form because the gene
\* lookup found nothing, and whose subject id has the CHEMBL.COMPOUND form
\* because the drug lookup found an id
C2_Witness ==
  \E i \in Processed :
    /\ Yielded(i)
    /\ Len(LookupsOf(i, "mygene")) = 1 /\ Empty(ResolvedEntrez(i))
    /\ Len(LookupsOf(i, "mychem")) = 1 /\ ~Empty(ResolvedChembl(i))
    /\ StartsWith(DocOf(i).object.id, NamePrefix)
    /\ StartsWith(DocOf(i).subject.id, ChemblCompoundPrefix)

\* C3, as claimed: every row whose drug_concept_id is non-empty and has
\* neither prefix, whatever its entrez_id and gene_name are and whatever the
\* gene lookup returns, raises the parsing error that names the
\* drug_concept_id and the drug name, and yields no document.
C3_BadConceptIdAlwaysRaises ==
  \A i \in Processed :
    (BadConceptId(Field(i, "drug_concept_id")) /\ ~GeneLookupRaised(i)) =>
      /\ outcome[i] = "raised"
      /\ i = Len(table)
      /\ pc = "raised"
      /\ error = [exc |-> "ValueError",
                  args |-> <<Field(i, "drug_concept_id"), Field(i, "drug_name")>>]

\* C3, amended: such a row raises the parsing error when its entrez_id or its
\* gene_name is non-empty, whatever the gene lookup returns; when both are
\* empty the row is skipped without an error, its drug_concept_id never
\* looked at. In neither case does the row yield a document.
C3_BadConceptIdRaisesUnlessGeneless ==
  \A i \in Processed :
    BadConceptId(Field(i, "drug_concept_id")) =>
      /\ ~Yielded(i)
      /\ Len(LookupsOf(i, "mychem")) = 0
      /\ (Empty(Field(i, "entrez_id")) /\ Empty(Field(i, "gene_name")))
           => outcome[i] = "skipped"
      /\ (~(Empty(Field(i, "entrez_id")) /\ Empty(Field(i, "gene_name")))
          /\ ~GeneLookupRaised(i)) =>
           /\ outcome[i] = "raised"
           /\ i = Len(table)
           /\ pc = "raised"
           /\ error = [exc |-> "ValueError",
                       args |-> <<Field(i, "drug_concept_id"), Field(i, "drug_name")>>]

\* C3 witness: a row with a bad drug_concept_id whose gene lookup returned
\* null raised the parsing error, after a row with a bad drug_concept_id and
\* neither entrez_id nor gene_name was skipped
C3_Witness ==
  /\ Len(table) = 2
  /\ BadConceptId(Field(1, "drug_concept_id")) /\ outcome[1] = "skipped"
  /\ BadConceptId(Field(2, "drug_concept_id"))
  /\ Len(LookupsOf(2, "mygene")) = 1 /\ Empty(ResolvedEntrez(2))
  /\ pc = "raised" /\ error.exc = "ValueError"

\* C5: a run that ended processed every row and yielded one document for
\* each row not skipped, in row order; a run that halted halted at its last
\* row, the first to raise, on an unrecoverable-input or numeric-parse error
\* (a ValueError); no row after a raising row is processed and no lookup is
\* issued for one.
C5_CompletesOrHaltsOnInputError ==
  /\ Len(docs) = Cardinality({i \in Processed : Yielded(i)})
  /\ \A i \in Processed : Yielded(i) => DocOf(i)._id = create_doc_id(table[i])
  /\ \A i \in Processed : outcome[i] = "raised" => i = Len(table) /\ pc = "raised"
  /\ \A k \in 1..Len(lookups) : lookups[k].row \in Processed
  /\ \A k \in 1..Len(lookups) : \A m \in k..Len(lookups) :
       lookups[k].row <= lookups[m].row
  /\ pc = "raised" =>
       /\ Len(table) > 0 /\ outcome[Len(table)] = "raised"
       /\ error.exc = "ValueError"
  /\ pc # "raised" => error = NoError /\ \A i \in Processed : outcome[i] # "raised"

\* C6: the _id of a document is a function of the fields of its row alone:
\* two rows with the same fields get the same _id, whatever their places in
\* the table and whatever the lookups replied, and two rows of the same number
\* of fields that differ in exactly one field get different hash inputs.
\* (_id stands for the bytes create_doc_id hashes: the digest is taken to be
\* free of collisions.)
C6_DocIdIsAFunctionOfTheRow ==
  \A i \in Processed : \A j \in Processed :
    (Yielded(i) /\ Yielded(j)) =>
      /\ table[i] = table[j] => DocOf(i)._id = DocOf(j)._id
      /\ DifferInOneField(table[i], table[j]) => DocOf(i)._id # DocOf(j)._id

\* C6 witness: the same row yielded twice with different replies of the
\* lookups
C6_Witness ==
  /\ Len(table) = 2
  /\ table[1] = table[2]
  /\ Yielded(1) /\ Yielded(2)
  /\ Len(LookupsOf(1, "mygene")) = 1 /\ Len(LookupsOf(2, "mygene")) = 1
  /\ ResolvedEntrez(1) # ResolvedEntrez(2)
  /\ DocOf(1).object.id # DocOf(2).object.id

\* C9: while a row is processed the gene lookup is issued once if entrez_id
\* is empty and gene_name is not, and never otherwise; the drug lookup is
\* issued once if the row was not discarded on the gene side, drug_concept_id
\* is empty or starts with "wikidata:", and drug_name is not empty, and never
\* otherwise; the gene lookup of a row precedes its drug lookup.
C9_LookupsIssuedExactlyWhenNeeded ==
  \A i \in Processed :
    LET discarded == Empty(Field(i, "entrez_id")) /\ Empty(Field(i, "gene_name"))
        c == Field(i, "drug_concept_id")
        gene_needed == Empty(Field(i, "entrez_id")) /\ ~Empty(Field(i, "gene_name"))
        drug_needed == /\ ~discarded
                       /\ (Empty(c) \/ StartsWith(c, WikidataPrefix))
                       /\ ~Empty(Field(i, "drug_name"))
    IN  /\ Len(LookupsOf(i, "mygene")) = (IF gene_needed THEN 1 ELSE 0)
        /\ Len(LookupsOf(i, "mychem")) = (IF drug_needed THEN 1 ELSE 0)
        /\ (PositionOf(i, "mygene") > 0 /\ PositionOf(i, "mychem") > 0)
             => PositionOf(i, "mygene") < PositionOf(i, "mychem")
        /\ (Yielded(i) /\ ~Empty(Field(i, "entrez_id")))
             => DocOf(i).object.NCBIGene = Field(i, "entrez_id")

\* C10: a yielded document has the key object.NCBIGene exactly if its
\* object.id has the "NCBIGene:" form, and then object.id is "NCBIGene:" +
\* object.NCBIGene; it has the key subject.CHEMBL_COMPOUND exactly if its
\* subject.id has the "CHEMBL.COMPOUND:" form, and then subject.id is
\* "CHEMBL.COMPOUND:" + subject.CHEMBL_COMPOUND; neither value is empty.
C10_IdKeysMatchIdForms ==
  \A k \in 1..Len(docs) :
    LET o == docs[k].object
        u == docs[k].subject
    IN  /\ "NCBIGene" \in DOMAIN o <=> StartsWith(o.id, NCBIGenePrefix)
        /\ "NCBIGene" \in DOMAIN o =>
             o.NCBIGene # <<>> /\ o.id = NCBIGenePrefix \o o.NCBIGene
        /\ "CHEMBL_COMPOUND" \in DOMAIN u <=> StartsWith(u.id, ChemblCompoundPrefix)
        /\ "CHEMBL_COMPOUND" \in DOMAIN u =>
             u.CHEMBL_COMPOUND # <<>> /\ u.id = ChemblCompoundPrefix \o u.CHEMBL_COMPOUND

\* C10 witness: a document without the key NCBIGene, its object id of the
\* name form, and a document with the key CHEMBL_COMPOUND
C10_Witness ==
  /\ Len(docs) = 2
  /\ "NCBIGene" \notin DOMAIN docs[1].object
  /\ StartsWith(docs[1].object.id, NamePrefix)
  /\ "CHEMBL_COMPOUND" \notin DOMAIN docs[1].subject
  /\ "NCBIGene" \in DOMAIN docs[2].object
  /\ "CHEMBL_COMPOUND" \in DOMAIN docs[2].subject

----------------------------------------------------------------------------
(* The claims about the functions called on their own *)

\* the part of s after its first colon
AfterFirstColon(s) ==
  LET at == {k \in 1..Len(s) : s[k] = ":"}
      first == CHOOSE k \in at : \A m \in at : k <= m
  IN  SubSeq(s, first + 1, Len(s))

\* s with each space replaced by an underscore
Underscored(s) == [k \in 1..Len(s) |-> IF s[k] = " " THEN "_" ELSE s[k]]

Commas(s) == Cardinality({k \in 1..Len(s) : s[k] = ","})

Has(s, c) == \E k \in 1..Len(s) : s[k] = c

\* C4: whatever the reply, query_entrez_id and query_chembl_id return a
\* non-empty id or null; they never return the empty string and never raise.
C4_LookupsNeverRaise ==
  call.fn \in {"query_entrez_id", "query_chembl_id"} =>
    /\ call.result.exc = ""
    /\ call.result.val = None \/ call.result.val # <<>>

\* C7: for a drug_concept_id that starts with "chembl:",
\* verify_drug_concept_id returns the part of it after its first colon and
\* issues no lookup, whatever the drug name.
C7_ChemblIdAfterFirstColon ==
  (call.fn = "verify_drug_concept_id" /\ StartsWith(call.args[1], ChemblPrefix)) =>
    /\ call.result.exc = ""
    /\ call.result.calls = <<>>
    /\ call.result.val = AfterFirstColon(call.args[1])

\* what C8 says of every input: the empty input gives the sentinel alone; a
\* non-empty input gives its pieces between commas, spaces replaced by
\* underscores: one tag more than commas, in input order, no space in a tag
TypesParsed(s, tags) ==
  IF Empty(s) THEN tags = <<NotApplicable>>
  ELSE /\ Len(tags) = Commas(s) + 1
       /\ Join(<<",">>, tags) = Underscored(s)
       /\ \A k \in 1..Len(tags) : ~Has(tags[k], " ") /\ ~Has(tags[k], ",")

\* C8, as claimed: parse_interaction_types maps every input as TypesParsed
\* says, and gives the sentinel for the empty input only.
C8_SentinelOnlyForEmptyInput ==
  call.fn = "parse_interaction_types" =>
    /\ TypesParsed(call.args[1], call.result.val)
    /\ call.result.val = <<NotApplicable>> => Empty(call.args[1])

\* C8, amended: parse_interaction_types maps every input as TypesParsed
\* says, and gives the sentinel alone for the empty input and for the inputs
\* that read "not_applicable" once their spaces are underscores, no others.
C8_SentinelForEmptyAndSpelledInput ==
  call.fn = "parse_interaction_types" =>
    /\ TypesParsed(call.args[1], call.result.val)
    /\ call.result.val = <<NotApplicable>> <=>
         (Empty(call.args[1]) \/ Underscored(call.args[1]) = NotApplicable)

\* C8 witness: an input with a space and a comma gave two tags, an
\* underscore in one of them
C8_Witness ==
  /\ call.fn = "parse_interaction_types"
  /\ Has(call.args[1], " ") /\ Commas(call.args[1]) = 1
  /\ Len(call.result.val) = 2
  /\ \E k \in 1..2 : Has(call.result.val[k], "_")

====
